---- MODULE Spec2Model ----
(***************************************************************************)
(* A model of the IMDB batch pipeline of this repository:                  *)
(*   src/data/download_data.py     download + size-capped sampling         *)
(*   src/data/preprocess_data.py   per-kind schema normalisation           *)
(*   src/features/build_features.py   join + derived movie features        *)
(* Every stage is a single-threaded script whose state is the file system; *)
(* the variables below are the directories the stages read and write.      *)
(* Each stage has its own specification (SpecDownload, ...), over the      *)
(* same variables; a stage's actions leave the other stages' files alone.  *)
(***************************************************************************)
EXTENDS Integers, Sequences, FiniteSets, TLC

VARIABLES
    rawDir,          \* data/raw/<file>: the final output of the download stage
    tempDir,         \* data/raw/temp/: per file, the set of temporaries left there
    dl_pc,           \* download main(): "idle", "running", "done" or "failed"
    dl_i,            \* download main(): index in FILES of the next file
    dl_start,        \* rawDir as it was when the current run started
    dl_fetched,      \* files download_file was called for in the current run
    dl_sampled,      \* files sample_gz_tsv was called for in the current run
    dl_last,         \* the last loop iteration: what was fetched and what came of it
    ft_basics,       \* data/processed/title.basics.tsv as build_features.py reads it
    ft_ratings,      \* data/processed/title.ratings.tsv as build_features.py reads it
    ft_features,     \* data/processed/features/movie_features.csv
    ft_outcome,      \* how the last run of build_features main() ended ("idle": none yet)
    pp_raw,          \* data/raw/<file> as preprocess_data.py reads it
    pp_out,          \* data/processed/<file without .gz>
    pp_pc,           \* preprocess main(): "idle", "running" or "done"
    pp_i,            \* preprocess main(): index in FILES of the next file
    pp_failed,       \* files whose processing raised in the current run (logged)
    pp_read,         \* files read_gz_tsv was called for in the current run
    pp_start,        \* data/processed as the current run of the normalizer found it
    tr_features,     \* movie_features.csv as train_rating_classifier.py reads it
    tr_fit,          \* what fitting and evaluating each family yields on that table
    tr_pc,           \* training main(): "idle", "running", "done" or "failed"
    tr_raised,       \* the exception main() let through to its caller ("": none)
    tr_i,            \* training main(): index in MODELS of the next family
    tr_results,      \* results, in insertion order: <<name, metrics>> records
    tr_trained,      \* families model.fit was called for in the current run
    tr_reports,      \* families whose models/<name>_report.json exists
    tr_best,         \* models/best_model.pkl
    tr_meta,         \* models/best_model_metadata.json
    tr_start         \* models/best_model.pkl as the current run of training found it

dl_vars == <<rawDir, tempDir, dl_pc, dl_i, dl_start,
             dl_fetched, dl_sampled, dl_last>>

ft_vars == <<ft_basics, ft_ratings, ft_features, ft_outcome>>

pp_vars == <<pp_raw, pp_out, pp_pc, pp_i, pp_failed, pp_read, pp_start>>

tr_vars == <<tr_features, tr_fit, tr_pc, tr_raised, tr_i, tr_results,
             tr_trained, tr_reports, tr_best, tr_meta, tr_start>>

vars == <<dl_vars, ft_vars, pp_vars, tr_vars>>

-----------------------------------------------------------------------------
(* Bounds of the model. *)

\* how many entries of FILES a run of the download stage iterates over
MaxFiles == 2
\* the largest number of data rows of a fetched table
MaxRows == 2
\* the largest number of rows of a table the feature stage joins
MaxJoinRows == 2
\* the largest value of a metric, in steps of 1/MaxScore
MaxScore == 2

-----------------------------------------------------------------------------
(* download_data.py: constants and configuration *)

FILE_TITLE_AKAS == "title.akas.tsv.gz"
FILE_TITLE_BASICS == "title.basics.tsv.gz"
FILE_TITLE_CREW == "title.crew.tsv.gz"
FILE_TITLE_EPISODE == "title.episode.tsv.gz"
FILE_TITLE_PRINCIPALS == "title.principals.tsv.gz"
FILE_TITLE_RATINGS == "title.ratings.tsv.gz"
FILE_NAME_BASICS == "name.basics.tsv.gz"

FILES == <<FILE_TITLE_AKAS, FILE_TITLE_BASICS, FILE_TITLE_CREW, FILE_TITLE_EPISODE,
           FILE_TITLE_PRINCIPALS, FILE_TITLE_RATINGS, FILE_NAME_BASICS>>

Min(a, b) == IF a <= b THEN a ELSE b

\* the files the modelled run loops over: the first MaxFiles entries of FILES
NumFiles == Min(MaxFiles, Len(FILES))
DlFiles == {FILES[j] : j \in 1..NumFiles}

\* preprocess_data.py loops over the same seven names, in the same order
PpFiles == {FILES[j] : j \in 1..Len(FILES)}

TARGET_SIZE_MB == 100
TARGET_SIZE_BYTES == TARGET_SIZE_MB * 1024 * 1024

\* sampling ratios params.yaml may configure for a file, in percent
RatioPcts == {50, 100}

\* byte sizes of a fetched artifact: below, at and above the budget
FileSizes == {TARGET_SIZE_BYTES - 1, TARGET_SIZE_BYTES, TARGET_SIZE_BYTES + 1}

\* SAMPLING_RATIOS.get(file, 0.1): the ratio the configuration of this run gives
\* the file.  A run looks a file's ratio up at most once, so the configuration is
\* drawn where it is read.
SAMPLING_RATIOS(file) == RatioPcts

-----------------------------------------------------------------------------
(* Files.  A text file is a sequence of physical lines; a physical line is   *)
(* the sequence of the cells (row texts) written on it and whether a newline *)
(* ends it.  A .gz file holds a text and whether its gzip stream is intact.  *)

HEADER == "tconst"
HEADER_WS == "tconst "      \* a header row with trailing white space

NoFile == [exists |-> FALSE]
GzFile(valid, lines) == [exists |-> TRUE, valid |-> valid, lines |-> lines]
Line(cells, nl) == [cells |-> cells, nl |-> nl]

\* str.strip() on the cell texts of the model
strip(s) == IF s = HEADER_WS THEN HEADER ELSE s

\* the text of a physical line as readline() returns it, stripped: the cells
\* of the line (one cell in every table fetched), without its newline
StripLine(l) == [j \in 1..Len(l.cells) |-> strip(l.cells[j])]

\* what a reader sees of the lines written one after the other: a line that
\* no newline ends runs into the line written after it
RECURSIVE Written(_)
Written(ls) ==
    IF Len(ls) <= 1 THEN ls
    ELSE IF ls[1].nl THEN <<ls[1]>> \o Written(Tail(ls))
    ELSE Written(<<Line(ls[1].cells \o ls[2].cells, ls[2].nl)>> \o Tail(Tail(ls)))

\* the data rows of a fetched table: "r1" .. "rn"
RowText(j) == CASE j = 1 -> "r1" [] j = 2 -> "r2" [] j = 3 -> "r3" [] OTHER -> "r4"

\* a table as fetched: a header line, n data rows, the last line with or
\* without its newline
TableLines(hdr, n, lastNl) ==
    [j \in 1..(n + 1) |->
        Line(<<IF j = 1 THEN hdr ELSE RowText(j - 1)>>, (j < n + 1) \/ lastNl)]

\* the artifacts a fetch can deliver: intact tables, and a broken gzip stream
Artifacts ==
    {GzFile(TRUE, TableLines(hdr, n, lastNl)) :
        hdr \in {HEADER, HEADER_WS}, n \in 0..MaxRows, lastNl \in BOOLEAN}
    \cup {GzFile(FALSE, <<>>)}

\* a .gz output whose writing was interrupted
PartialGz == GzFile(FALSE, <<>>)

-----------------------------------------------------------------------------
(* download_data.py: sample_gz_tsv *)

\* int(len(lines) * sample_ratio), the ratio in percent
SampleSize(n, pct) == (n * pct) \div 100

\* random.sample(lines, k): every choice of k distinct positions, in any order
Samples(n, k) ==
    {s \in [1..k -> 1..n] : \A a, b \in 1..k : a # b => s[a] # s[b]}

\* the points where the environment can make an I/O call of the stage raise
Faults == {"none", "fetch", "decompress", "write", "compress"}

\* sample_gz_tsv(input_path, output_path, sample_ratio) on the fetched file
\* `input`, with the random choice `pick` and the I/O fault `fault`.
\* Gives whether it returned normally (ok), the file then at output_path (out)
\* and the temporaries it leaves beside the input (temps).
sample_gz_tsv(input, pct, pick, fault) ==
    IF ~input.valid \/ fault = "decompress"
    THEN \* gzip raises while temp_path is being written
         [ok |-> FALSE, out |-> NoFile, temps |-> {"tsv"}]
    ELSE
    LET text == input.lines
        header == IF Len(text) = 0 THEN <<>> ELSE StripLine(text[1])
        lines == IF Len(text) = 0 THEN <<>> ELSE Tail(text)
        sampled_lines == [j \in 1..Len(pick) |-> lines[pick[j]]]
        written == Written(<<Line(header, TRUE)>> \o sampled_lines)
    IN  IF fault = "write"
        THEN [ok |-> FALSE, out |-> NoFile, temps |-> {"tsv", "sampled"}]
        ELSE IF fault = "compress"
        THEN \* gzip.open(output_path, 'wb') has created the output already
             [ok |-> FALSE, out |-> PartialGz, temps |-> {"tsv", "sampled"}]
        ELSE [ok |-> TRUE, out |-> GzFile(TRUE, written), temps |-> {}]

\* the random choices sample_gz_tsv can make on `input` with ratio pct
PicksFor(input, pct) ==
    IF ~input.valid \/ Len(input.lines) = 0 THEN {<<>>}
    ELSE Samples(Len(input.lines) - 1, SampleSize(Len(input.lines) - 1, pct))

-----------------------------------------------------------------------------
(* download_data.py: main *)

NoIteration ==
    [file |-> "", skipped |-> FALSE, fetched |-> FALSE, sampled |-> FALSE,
     ok |-> TRUE, file_size |-> 0, ratio |-> 0, art |-> NoFile]

\* the feature stage has nothing to read and has not run
FtIdle ==
    /\ ft_basics = NoFile
    /\ ft_ratings = NoFile
    /\ ft_features = NoFile
    /\ ft_outcome = "idle"

\* the download stage has not run: data/raw is empty
DlIdle ==
    /\ rawDir = [f \in DlFiles |-> NoFile]
    /\ tempDir = [f \in DlFiles |-> {}]
    /\ dl_pc = "idle"
    /\ dl_i = 1
    /\ dl_start = [f \in DlFiles |-> NoFile]
    /\ dl_fetched = {}
    /\ dl_sampled = {}
    /\ dl_last = NoIteration

\* the normalizer has nothing to read and has not run
PpIdle ==
    /\ pp_raw = [f \in PpFiles |-> NoFile]
    /\ pp_out = [f \in PpFiles |-> NoFile]
    /\ pp_pc = "idle"
    /\ pp_i = 1
    /\ pp_failed = {}
    /\ pp_read = {}
    /\ pp_start = [f \in PpFiles |-> NoFile]

\* create_models: the families, in the order the dict is built
MODELS == <<"logistic_regression", "linear_svm">>
Families == {MODELS[k] : k \in 1..Len(MODELS)}

\* model.fit raises
Raises == [raises |-> TRUE]
\* evaluate_model: the metrics the selection and the metadata use
Metrics(f1, acc) == [raises |-> FALSE, f1_score_weighted |-> f1, accuracy |-> acc]

\* the training stage has nothing to read and has not run
TrIdle ==
    /\ tr_features = NoFile
    /\ tr_fit = [m \in Families |-> Raises]
    /\ tr_pc = "idle"
    /\ tr_raised = ""
    /\ tr_i = 1
    /\ tr_results = <<>>
    /\ tr_trained = {}
    /\ tr_reports = {}
    /\ tr_best = NoFile
    /\ tr_meta = NoFile
    /\ tr_start = NoFile

DlInit == DlIdle /\ FtIdle /\ PpIdle /\ TrIdle

\* main() is started, for the first time or again after an earlier run has ended
\* or failed: the directories are created, the loop is at FILES[1]
dl_begin ==
    /\ dl_pc \in {"idle", "done", "failed"}
    /\ dl_pc' = "running"
    /\ dl_i' = 1
    /\ dl_start' = rawDir
    /\ dl_fetched' = {}
    /\ dl_sampled' = {}
    /\ dl_last' = NoIteration
    /\ UNCHANGED <<rawDir, tempDir>>
    /\ UNCHANGED <<ft_vars, pp_vars, tr_vars>>

\* a loop body without its exists() test
dl_skips_never(file) == FALSE

\* the exists() test of the loop body
dl_skips(file) == rawDir[file].exists

\* a size test that also samples a file of exactly the budget
needs_sampling_at_budget(file_size) == file_size >= TARGET_SIZE_BYTES

\* the test that decides between sampling and moving
needs_sampling(file_size) == file_size > TARGET_SIZE_BYTES

\* one iteration of "for file in FILES", on FILES[dl_i]
dl_iteration ==
    /\ dl_pc = "running"
    /\ dl_i <= NumFiles
    /\ UNCHANGED <<ft_vars, pp_vars, tr_vars>>
    /\ LET file == FILES[dl_i] IN
       IF dl_skips(file)
       THEN /\ dl_last' = [NoIteration EXCEPT !.file = file, !.skipped = TRUE]
            /\ dl_i' = dl_i + 1
            /\ UNCHANGED <<rawDir, tempDir, dl_pc, dl_start,
                           dl_fetched, dl_sampled>>
       ELSE \E art \in Artifacts, file_size \in FileSizes, fault \in Faults :
            /\ dl_fetched' = dl_fetched \cup {file}
            /\ UNCHANGED dl_start
            /\ IF fault = "fetch"
               THEN \* urlretrieve raises: main() ends with the exception
                    /\ dl_pc' = "failed"
                    /\ dl_last' = [NoIteration EXCEPT !.file = file, !.fetched = TRUE,
                                                      !.ok = FALSE]
                    /\ UNCHANGED <<rawDir, tempDir, dl_i, dl_sampled>>
               ELSE IF needs_sampling(file_size)
               THEN \E sample_ratio \in SAMPLING_RATIOS(file) :
                    \E pick \in PicksFor(art, sample_ratio) :
                    LET r == sample_gz_tsv(art, sample_ratio, pick, fault)
                    IN  /\ dl_sampled' = dl_sampled \cup {file}
                        /\ rawDir' = [rawDir EXCEPT ![file] = r.out]
                        /\ dl_last' = [file |-> file, skipped |-> FALSE, fetched |-> TRUE,
                                       sampled |-> TRUE, ok |-> r.ok,
                                       file_size |-> file_size, ratio |-> sample_ratio,
                                       art |-> art]
                        /\ IF r.ok
                           THEN \* temp_path.unlink()
                                /\ tempDir' = [tempDir EXCEPT ![file] = {}]
                                /\ dl_i' = dl_i + 1
                                /\ dl_pc' = dl_pc
                           ELSE \* the exception leaves main(): the download stays
                                /\ tempDir' = [tempDir EXCEPT ![file] = {"gz"} \cup r.temps]
                                /\ dl_i' = dl_i
                                /\ dl_pc' = "failed"
               ELSE \* temp_path.rename(output_path)
                    /\ rawDir' = [rawDir EXCEPT ![file] = art]
                    /\ tempDir' = [tempDir EXCEPT ![file] = {}]
                    /\ dl_last' = [file |-> file, skipped |-> FALSE, fetched |-> TRUE,
                                   sampled |-> FALSE, ok |-> TRUE,
                                   file_size |-> file_size, ratio |-> 0, art |-> art]
                    /\ dl_i' = dl_i + 1
                    /\ UNCHANGED <<dl_pc, dl_sampled>>

\* the loop is over: main() returns
dl_end ==
    /\ dl_pc = "running"
    /\ dl_i > NumFiles
    /\ dl_pc' = "done"
    /\ UNCHANGED <<rawDir, tempDir, dl_i, dl_start,
                   dl_fetched, dl_sampled, dl_last>>
    /\ UNCHANGED <<ft_vars, pp_vars, tr_vars>>

DlNext == dl_begin \/ dl_iteration \/ dl_end

SpecDownload == DlInit /\ [][DlNext]_vars

-----------------------------------------------------------------------------
(* Claims about the download stage, checked under SpecDownload *)

\* the data rows of the table the last iteration fetched
LastRows == Len(dl_last.art.lines) - 1

\* the last iteration called sample_gz_tsv on an intact table and it returned
LastSampledOk == dl_last.sampled /\ dl_last.ok

\* C1: for an input of n > 0 data rows and a ratio r in (0, 1], the output of
\* sample_gz_tsv is the header row, once and first (here: up to the white space
\* around it), followed by exactly floor(n * r) data rows.
C1_SamplerOutputShape ==
    (LastSampledOk /\ LastRows > 0) =>
        LET out == rawDir[dl_last.file].lines
            hdr == StripLine(dl_last.art.lines[1])
        IN  /\ Len(out) = 1 + ((LastRows * dl_last.ratio) \div 100)
            /\ out[1].cells = hdr
            /\ \A j \in 2..Len(out) : Len(out[j].cells) = 1 /\ out[j].cells # hdr

\* C2: sample_gz_tsv fails when its input cannot be decompressed or has no data
\* row, and after a failure at any step of it no file is at the final output path.
C2_SamplerFailureAtomic ==
    dl_last.sampled =>
        /\ (~dl_last.art.valid \/ LastRows = 0) => ~dl_last.ok
        /\ ~dl_last.ok => ~rawDir[dl_last.file].exists

\* C3: a file whose final output exists when a run of the stage starts is neither
\* fetched nor sampled by that run, and its output stays what it was; so a run
\* that follows a complete run changes nothing.
C3_SamplerIdempotent ==
    \A f \in DlFiles :
        (dl_pc # "idle" /\ dl_start[f].exists) =>
            /\ f \notin dl_fetched
            /\ f \notin dl_sampled
            /\ rawDir[f] = dl_start[f]

\* a run that found an output in place has ended, having fetched another file
C3_Witness ==
    /\ dl_pc = "done"
    /\ \E f \in DlFiles : dl_start[f].exists /\ dl_start[f].valid
    /\ dl_fetched # {}

\* C4: sample_gz_tsv is called for a fetched file exactly when the byte size of
\* the artifact as fetched exceeds the budget (TARGET_SIZE_BYTES, the same for
\* every kind); otherwise the artifact itself becomes the final output.
C4_TriggerPolicy ==
    (dl_last.fetched /\ (dl_last.sampled \/ dl_last.ok)) =>
        /\ dl_last.sampled <=> (dl_last.file_size > TARGET_SIZE_MB * 1024 * 1024)
        /\ dl_last.sampled <=> (dl_last.file \in dl_sampled)
        /\ ~dl_last.sampled => rawDir[dl_last.file] = dl_last.art

\* a file of exactly the budget was moved unsampled in a run that sampled another
C4_Witness ==
    /\ dl_last.fetched /\ ~dl_last.sampled /\ dl_last.ok
    /\ dl_last.file_size = TARGET_SIZE_BYTES
    /\ rawDir[dl_last.file] = dl_last.art
    /\ Len(dl_last.art.lines) > 1
    /\ dl_sampled # {}

-----------------------------------------------------------------------------
(* build_features.py: values and tables *)

\* a numeric cell: a number, or NaN / pd.NA
NA == [na |-> TRUE]
Num(v) == [na |-> FALSE, v |-> v]

\* a category cell that holds no label (NaN)
NoCategory == "NaN"

Table(rows) == [exists |-> TRUE, rows |-> rows]

TitleIds == {"tt1", "tt2"}
TitleTypes == {"movie", "short"}

\* cell values of the numeric columns; averageRating is held in tenths (8.9 is 89)
StartYears == {NA, Num(1994), Num(1999), Num(2000)}
RuntimeValues ==
    {NA, Num(0), Num(60), Num(61), Num(90), Num(120), Num(121), Num(154), Num(180),
     Num(181)}
RatingValues ==
    {NA, Num(0), Num(40), Num(41), Num(60), Num(80), Num(81), Num(89), Num(100),
     Num(101)}
VoteValues ==
    {NA, Num(0), Num(1000), Num(1001), Num(10000), Num(100000), Num(100001),
     Num(2000000)}

BasicsRow(id, type, year, runtime) ==
    [tconst |-> id, titleType |-> type, startYear |-> year, runtimeMinutes |-> runtime]
RatingsRow(id, rating, votes) ==
    [tconst |-> id, averageRating |-> rating, numVotes |-> votes]

BasicsRows ==
    {BasicsRow(id, type, year, runtime) :
        id \in TitleIds, type \in TitleTypes, year \in StartYears,
        runtime \in RuntimeValues}
RatingsRows ==
    {RatingsRow(id, rating, votes) :
        id \in TitleIds, rating \in RatingValues, votes \in VoteValues}

\* the rows of the tables of more than one row: any identifier and type, the
\* numeric cells of one title
PlainBasicsRows ==
    {BasicsRow(id, type, Num(1994), Num(154)) : id \in TitleIds, type \in TitleTypes}
PlainRatingsRows == {RatingsRow(id, Num(89), Num(2000000)) : id \in TitleIds}

SeqsUpTo(S, n) == UNION {[1..k -> S] : k \in 0..n}

\* the processed tables the stage can find: none, any table of one row, and the
\* tables of up to MaxJoinRows plain rows
BasicsTables ==
    {NoFile} \cup {Table(<<r>>) : r \in BasicsRows}
    \cup {Table(t) : t \in SeqsUpTo(PlainBasicsRows, MaxJoinRows)}
RatingsTables ==
    {NoFile} \cup {Table(<<r>>) : r \in RatingsRows}
    \cup {Table(t) : t \in SeqsUpTo(PlainRatingsRows, MaxJoinRows)}

-----------------------------------------------------------------------------
(* build_features.py: merge_title_data *)

\* Series.is_unique on the key column
is_unique(rows) ==
    \A a, b \in 1..Len(rows) : a # b => rows[a].tconst # rows[b].tconst

\* a merge that checks only the left keys
validate_left_only(basics_df, ratings_df) == is_unique(basics_df)

\* validate="1:1": the keys are unique in the left and in the right table
validate_1_1(basics_df, ratings_df) == is_unique(basics_df) /\ is_unique(ratings_df)

IsMatch(b, r) == b.tconst = r.tconst

Joined(b, r) ==
    [tconst |-> b.tconst, titleType |-> b.titleType, startYear |-> b.startYear,
     runtimeMinutes |-> b.runtimeMinutes,
     averageRating |-> r.averageRating, numVotes |-> r.numVotes]

\* the rows a left join gives for one left row: one per matching right row, or
\* one with the right columns missing
RowsFor(b, ratings_df) ==
    LET ms == SelectSeq(ratings_df, LAMBDA r : IsMatch(b, r))
    IN  IF ms = <<>>
        THEN <<Joined(b, [averageRating |-> NA, numVotes |-> NA])>>
        ELSE [j \in 1..Len(ms) |-> Joined(b, ms[j])]

\* pd.merge(basics_df, ratings_df, on='tconst', how='left')
RECURSIVE left_merge(_, _)
left_merge(basics_df, ratings_df) ==
    IF basics_df = <<>> THEN <<>>
    ELSE RowsFor(Head(basics_df), ratings_df) \o left_merge(Tail(basics_df), ratings_df)

-----------------------------------------------------------------------------
(* build_features.py: extract_movie_features *)

\* a bin edge: a number or float('inf')
Fin(v) == [inf |-> FALSE, v |-> v]
PosInf == [inf |-> TRUE]

AboveEdge(x, e) == ~e.inf /\ x > e.v
UpToEdge(x, e) == e.inf \/ x <= e.v
BelowEdge(x, e) == e.inf \/ x < e.v
FromEdge(x, e) == ~e.inf /\ x >= e.v

bins == <<Fin(0), Fin(60), Fin(90), Fin(120), Fin(180), PosInf>>
labels ==
    <<"Short (<60m)", "Standard (60-90m)", "Standard (90-120m)", "Long (120-180m)",
      "Very Long (>180m)">>

\* averageRating is in tenths, and so are its bin edges
rating_bins == <<Fin(0), Fin(40), Fin(60), Fin(80), Fin(100)>>
rating_labels == <<"Poor", "Average", "Good", "Excellent">>

vote_bins == <<Fin(0), Fin(1000), Fin(10000), Fin(100000), PosInf>>
vote_labels == <<"Very Low", "Low", "Medium", "High">>

LabelOf(idx, ls) == IF idx = {} THEN NoCategory ELSE ls[CHOOSE j \in idx : TRUE]

\* pd.cut(..., right=False): intervals closed on the left
cut_left_closed(x, bs, ls) ==
    IF x.na THEN NoCategory
    ELSE LabelOf({j \in 1..Len(ls) : FromEdge(x.v, bs[j]) /\ BelowEdge(x.v, bs[j + 1])}, ls)

\* pd.cut(..., include_lowest=True) with the last interval taking all above it
cut_clipped(x, bs, ls) ==
    IF x.na THEN NoCategory
    ELSE LabelOf({j \in 1..Len(ls) :
                    /\ (j = 1 /\ x.v >= bs[1].v) \/ AboveEdge(x.v, bs[j])
                    /\ j = Len(ls) \/ UpToEdge(x.v, bs[j + 1])}, ls)

\* pd.cut(x, bins=bs, labels=ls): the label of the interval (bs[j], bs[j+1]]
\* that holds x; NaN for NaN and for a value in no interval
cut(x, bs, ls) ==
    IF x.na THEN NoCategory
    ELSE LabelOf({j \in 1..Len(ls) : AboveEdge(x.v, bs[j]) /\ UpToEdge(x.v, bs[j + 1])}, ls)

\* a decade rounded to the nearest ten
decade_rounded(x) == IF x.na THEN NA ELSE Num(((x.v + 5) \div 10) * 10)

\* lambda x: (x // 10) * 10 if not pd.isna(x) else pd.NA
decade(x) == IF x.na THEN NA ELSE Num((x.v \div 10) * 10)

\* a filter that keeps every title
is_movie_always(row) == TRUE

\* df['titleType'] == 'movie'
is_movie(row) == row.titleType = "movie"

FeatureRow(m) ==
    [tconst |-> m.tconst, titleType |-> m.titleType, startYear |-> m.startYear,
     runtimeMinutes |-> m.runtimeMinutes, averageRating |-> m.averageRating,
     numVotes |-> m.numVotes,
     decade |-> decade(m.startYear),
     runtime_category |-> cut(m.runtimeMinutes, bins, labels),
     rating_category |-> cut(m.averageRating, rating_bins, rating_labels),
     popularity |-> cut(m.numVotes, vote_bins, vote_labels)]

extract_movie_features(df) ==
    LET movies_df == SelectSeq(df, is_movie)
    IN  [j \in 1..Len(movies_df) |-> FeatureRow(movies_df[j])]

-----------------------------------------------------------------------------
(* build_features.py: main *)

\* the processed tables are in place (or not) and the stage has not run
FtInit ==
    /\ DlIdle
    /\ PpIdle
    /\ TrIdle
    /\ ft_basics \in BasicsTables
    /\ ft_ratings \in RatingsTables
    /\ ft_features = NoFile
    /\ ft_outcome = "idle"

\* one run of main(), from its exists() test to its return or exception
ft_main ==
    /\ UNCHANGED <<dl_vars, pp_vars, tr_vars, ft_basics, ft_ratings>>
    /\ IF ft_features.exists
       THEN \* "already exists. Skipping feature extraction."
            /\ ft_outcome' = "skipped"
            /\ UNCHANGED ft_features
       ELSE IF ~ft_basics.exists \/ ~ft_ratings.exists
       THEN \* merge_title_data() logs an error and returns None; main returns
            /\ ft_outcome' = "missing"
            /\ UNCHANGED ft_features
       ELSE IF ~validate_1_1(ft_basics.rows, ft_ratings.rows)
       THEN \* pd.merge raises MergeError, which leaves main()
            /\ ft_outcome' = "error"
            /\ UNCHANGED ft_features
       ELSE LET merged_df == left_merge(ft_basics.rows, ft_ratings.rows)
                movies_df == extract_movie_features(merged_df)
            IN  /\ ft_features' = Table(movies_df)
                /\ ft_outcome' = "written"

FtNext == ft_main

SpecFeatures == FtInit /\ [][FtNext]_vars

-----------------------------------------------------------------------------
(* Claims about the feature stage, checked under SpecFeatures *)

\* the rows of the feature table, once a run has written it
FeatureRows == IF ft_features.exists THEN ft_features.rows ELSE <<>>

\* both inputs are in place and a run has got as far as the join
JoinRun == ft_outcome # "idle" /\ ft_basics.exists /\ ft_ratings.exists

\* C5 (as amended): a value equal to a bin boundary falls in the bin it closes:
\* runtimeMinutes = 60 gives 'Short (<60m)', averageRating = 8.0 gives 'Good' and
\* numVotes = 1000 gives 'Very Low'.
C5_BoundaryBins ==
    \A j \in 1..Len(FeatureRows) :
        LET row == FeatureRows[j]
        IN  /\ row.runtimeMinutes = Num(60) => row.runtime_category = "Short (<60m)"
            /\ row.averageRating = Num(80) => row.rating_category = "Good"
            /\ row.numVotes = Num(1000) => row.popularity = "Very Low"

\* C5 (as claimed): runtimeMinutes = 60 gives 'Standard (60-90m)', averageRating =
\* 8.0 gives 'Good' and numVotes = 1000 gives 'Low'.
C5_BoundaryBinsAsClaimed ==
    \A j \in 1..Len(FeatureRows) :
        LET row == FeatureRows[j]
        IN  /\ row.runtimeMinutes = Num(60) => row.runtime_category = "Standard (60-90m)"
            /\ row.averageRating = Num(80) => row.rating_category = "Good"
            /\ row.numVotes = Num(1000) => row.popularity = "Low"

\* a written feature row with all three values on a boundary
C5_Witness ==
    /\ ft_outcome = "written"
    /\ \E j \in 1..Len(FeatureRows) :
        /\ FeatureRows[j].runtimeMinutes = Num(60)
        /\ FeatureRows[j].averageRating = Num(80)
        /\ FeatureRows[j].numVotes = Num(1000)

\* x lies in the interval (lo, hi]
Within(x, lo, hi) == ~x.na /\ lo < x.v /\ x.v <= hi
\* x lies above lo
Above(x, lo) == ~x.na /\ lo < x.v

\* C6: each of runtime_category, rating_category and popularity is the label of
\* the left-open, right-closed interval that holds the input value, with the
\* boundaries 0/60/90/120/180/inf, 0/4/6/8/10 and 0/1000/10000/100000/inf; a
\* missing input or a value in no interval gives a missing category, and the
\* stage does not fail on it.
C6_BinningRule ==
    /\ \A j \in 1..Len(FeatureRows) :
        LET row == FeatureRows[j]
            rt == row.runtimeMinutes
            ar == row.averageRating
            nv == row.numVotes
        IN  /\ row.runtime_category =
                 (CASE Within(rt, 0, 60) -> "Short (<60m)"
                    [] Within(rt, 60, 90) -> "Standard (60-90m)"
                    [] Within(rt, 90, 120) -> "Standard (90-120m)"
                    [] Within(rt, 120, 180) -> "Long (120-180m)"
                    [] Above(rt, 180) -> "Very Long (>180m)"
                    [] OTHER -> NoCategory)
            /\ row.rating_category =
                 (CASE Within(ar, 0, 40) -> "Poor"
                    [] Within(ar, 40, 60) -> "Average"
                    [] Within(ar, 60, 80) -> "Good"
                    [] Within(ar, 80, 100) -> "Excellent"
                    [] OTHER -> NoCategory)
            /\ row.popularity =
                 (CASE Within(nv, 0, 1000) -> "Very Low"
                    [] Within(nv, 1000, 10000) -> "Low"
                    [] Within(nv, 10000, 100000) -> "Medium"
                    [] Above(nv, 100000) -> "High"
                    [] OTHER -> NoCategory)
    /\ (JoinRun /\ is_unique(ft_basics.rows) /\ is_unique(ft_ratings.rows)) =>
            ft_outcome \in {"written", "skipped"}

\* a written row with a runtime on the first boundary, a rating above the last
\* interval, and no vote count
C6_Witness ==
    /\ ft_outcome = "written"
    /\ \E j \in 1..Len(FeatureRows) :
        /\ FeatureRows[j].runtimeMinutes = Num(60)
        /\ FeatureRows[j].runtime_category = "Short (<60m)"
        /\ FeatureRows[j].averageRating = Num(101)
        /\ FeatureRows[j].rating_category = NoCategory
        /\ FeatureRows[j].numVotes = NA
        /\ FeatureRows[j].popularity = NoCategory

\* some identifier occurs more than once in the table
HasDuplicateId(rows) ==
    \E a, b \in 1..Len(rows) : a < b /\ rows[a].tconst = rows[b].tconst

\* C7: when a title identifier occurs more than once in the basics table or in
\* the ratings table, a run that reaches the join fails with an error, and no
\* feature table is written.
C7_JoinCardinality ==
    (JoinRun /\ (HasDuplicateId(ft_basics.rows) \/ HasDuplicateId(ft_ratings.rows))) =>
        /\ ft_outcome = "error"
        /\ ~ft_features.exists

\* a run failed on an identifier that is duplicated in the ratings table only
C7_Witness ==
    /\ ft_outcome = "error"
    /\ JoinRun
    /\ ~HasDuplicateId(ft_basics.rows) /\ Len(ft_basics.rows) > 0
    /\ HasDuplicateId(ft_ratings.rows)
    /\ ~ft_features.exists

\* the positions of the movies in the basics table
MoviePositions == {j \in 1..Len(ft_basics.rows) : ft_basics.rows[j].titleType = "movie"}

\* C8: with identifiers unique in both inputs, the feature table has exactly one
\* row for each basics row of titleType 'movie' and no other row; a movie without
\* a ratings row has its rating-derived columns missing.
C8_FeatureRowSet ==
    (JoinRun /\ ~HasDuplicateId(ft_basics.rows) /\ ~HasDuplicateId(ft_ratings.rows)) =>
        /\ ft_features.exists
        /\ Len(FeatureRows) = Cardinality(MoviePositions)
        /\ \A j \in MoviePositions :
            \E k \in 1..Len(FeatureRows) :
                /\ FeatureRows[k].tconst = ft_basics.rows[j].tconst
                /\ FeatureRows[k].titleType = "movie"
                /\ \A k2 \in 1..Len(FeatureRows) :
                    FeatureRows[k2].tconst = FeatureRows[k].tconst => k2 = k
                /\ (\A r \in 1..Len(ft_ratings.rows) :
                        ft_ratings.rows[r].tconst # FeatureRows[k].tconst)
                   => /\ FeatureRows[k].averageRating = NA
                      /\ FeatureRows[k].numVotes = NA
                      /\ FeatureRows[k].rating_category = NoCategory
                      /\ FeatureRows[k].popularity = NoCategory
        /\ \A k \in 1..Len(FeatureRows) :
            \E j \in MoviePositions : ft_basics.rows[j].tconst = FeatureRows[k].tconst

\* a written table of one movie without ratings, from a basics table that also
\* holds a non-movie, whose identifier is the only one rated
C8_Witness ==
    /\ ft_outcome = "written"
    /\ Len(ft_basics.rows) = 2 /\ Cardinality(MoviePositions) = 1
    /\ Len(ft_ratings.rows) = 1
    /\ Len(FeatureRows) = 1
    /\ FeatureRows[1].averageRating = NA
    /\ \E j \in 1..2 :
        /\ ft_basics.rows[j].titleType = "short"
        /\ ft_basics.rows[j].tconst = ft_ratings.rows[1].tconst

\* C9: decade is floor(startYear / 10) * 10, and missing when startYear is; the
\* movie (tt1, 1994, 154 minutes) rated (8.9, 2000000 votes) gives exactly one
\* feature row, with decade 1990, 'Long (120-180m)', 'Excellent' and 'High'.
C9_DerivedRow ==
    /\ \A j \in 1..Len(FeatureRows) :
        LET y == FeatureRows[j].startYear
            d == FeatureRows[j].decade
        IN  IF y.na THEN d = NA
            ELSE ~d.na /\ d.v % 10 = 0 /\ d.v <= y.v /\ y.v < d.v + 10
    /\ ( /\ ft_outcome = "written"
         /\ ft_basics = Table(<<BasicsRow("tt1", "movie", Num(1994), Num(154))>>)
         /\ ft_ratings = Table(<<RatingsRow("tt1", Num(89), Num(2000000))>>) )
       => /\ Len(FeatureRows) = 1
          /\ FeatureRows[1].tconst = "tt1"
          /\ FeatureRows[1].decade = Num(1990)
          /\ FeatureRows[1].runtime_category = "Long (120-180m)"
          /\ FeatureRows[1].rating_category = "Excellent"
          /\ FeatureRows[1].popularity = "High"

\* the scenario's tables have been joined and its feature row written
C9_Witness ==
    /\ ft_outcome = "written"
    /\ ft_basics = Table(<<BasicsRow("tt1", "movie", Num(1994), Num(154))>>)
    /\ ft_ratings = Table(<<RatingsRow("tt1", Num(89), Num(2000000))>>)
    /\ Len(FeatureRows) = 1
    /\ FeatureRows[1].decade = Num(1990)

-----------------------------------------------------------------------------
(* preprocess_data.py: cells of a raw table *)

\* A cell as pd.read_csv gives it: NaN (NA), a number (Num), or a string.  A
\* string is the sequence of its tokens; "," is the token that separates the
\* items of a list-valued field.
Str(toks) == [na |-> FALSE, s |-> toks]
IsStr(c) == "s" \in DOMAIN c
IsNum(c) == "v" \in DOMAIN c

\* a list cell, as split(',') or [] makes it
List(items) == [na |-> FALSE, list |-> items]
\* a boolean cell, as astype(bool) makes it
Bool(b) == [na |-> FALSE, b |-> b]

\* the sentinel \N of the raw files
NULL == Str(<<"\\N">>)

\* the strings that are numerals, with their values
NumberOf == (<<"1994">> :> 1994) @@ (<<"7">> :> 7)

\* raw cells of a numeric column: the sentinel, a numeral, another string, empty
RawNumericCells == {NULL, Str(<<"1994">>), Str(<<"abc">>), NA}
\* raw cells of a list-valued column
RawListCells == {NULL, Str(<<"Drama">>), Str(<<"Drama", ",", "Comedy">>), NA}
\* raw cells of a 0/1 column: read as integers, or as strings in a mixed column
RawFlagCells == {Num(0), Num(1), Str(<<"0">>)}
\* raw cells of the characters column
RawTextCells == {NULL, Str(<<"[\"Self\"]">>), NA}

\* Series.replace('\\N', pd.NA)
replace_null(c) == IF c = NULL THEN NA ELSE c

\* pd.to_numeric(..., errors='ignore'): what cannot be parsed is left as it is
to_numeric_ignore(c) ==
    IF IsStr(c) /\ c.s \in DOMAIN NumberOf THEN Num(NumberOf[c.s]) ELSE c

\* pd.to_numeric(..., errors='coerce'): a number stays, a numeral is parsed,
\* anything else becomes NaN
to_numeric(c) ==
    IF c.na THEN NA
    ELSE IF IsNum(c) THEN c
    ELSE IF IsStr(c) /\ c.s \in DOMAIN NumberOf THEN Num(NumberOf[c.s])
    ELSE NA

\* Series.astype(bool): zero is False; any other number, any non-empty string
\* and NaN are True
astype_bool(c) ==
    IF c.na THEN Bool(TRUE)
    ELSE IF IsNum(c) THEN Bool(c.v # 0)
    ELSE Bool(c.s # <<>>)

\* str.split(','): the items between the separators
RECURSIVE split(_)
split(toks) ==
    IF \A j \in 1..Len(toks) : toks[j] # ","
    THEN <<toks>>
    ELSE LET k == CHOOSE j \in 1..Len(toks) :
                    toks[j] = "," /\ \A h \in 1..(j - 1) : toks[h] # ","
         IN  <<SubSeq(toks, 1, k - 1)>> \o split(SubSeq(toks, k + 1, Len(toks)))

\* a split that does not know the sentinel: '\N' becomes the list ['\N']
split_list_keeps_null(c) == IF IsStr(c) THEN List(split(c.s)) ELSE List(<<>>)

\* lambda x: x.split(',') if isinstance(x, str) and x != '\\N' else []
split_list(c) == IF IsStr(c) /\ c # NULL THEN List(split(c.s)) ELSE List(<<>>)

\* lambda x: x if isinstance(x, str) and x != '\\N' else None
keep_text(c) == IF IsStr(c) /\ c # NULL THEN c ELSE NA

-----------------------------------------------------------------------------
(* preprocess_data.py: the preprocess_* functions, row by row *)

title_basics_row(r) ==
    [r EXCEPT !.startYear = to_numeric(replace_null(@)),
              !.endYear = to_numeric(replace_null(@)),
              !.runtimeMinutes = to_numeric(replace_null(@)),
              !.isAdult = astype_bool(@),
              !.genres = split_list(@)]
preprocess_title_basics(df) == [j \in 1..Len(df) |-> title_basics_row(df[j])]

title_ratings_row(r) ==
    [r EXCEPT !.averageRating = to_numeric(@),
              !.numVotes = to_numeric(@)]
preprocess_title_ratings(df) == [j \in 1..Len(df) |-> title_ratings_row(df[j])]

name_basics_row(r) ==
    [r EXCEPT !.birthYear = to_numeric(replace_null(@)),
              !.deathYear = to_numeric(replace_null(@)),
              !.primaryProfession = split_list(@),
              !.knownForTitles = split_list(@)]
preprocess_name_basics(df) == [j \in 1..Len(df) |-> name_basics_row(df[j])]

title_akas_row(r) ==
    [r EXCEPT !.ordering = to_numeric(@),
              !.isOriginalTitle = astype_bool(@),
              !.types = split_list(@),
              !.attributes = split_list(@)]
preprocess_title_akas(df) == [j \in 1..Len(df) |-> title_akas_row(df[j])]

title_crew_row(r) ==
    [r EXCEPT !.directors = split_list(@),
              !.writers = split_list(@)]
preprocess_title_crew(df) == [j \in 1..Len(df) |-> title_crew_row(df[j])]

title_episode_row(r) ==
    [r EXCEPT !.seasonNumber = to_numeric(replace_null(@)),
              !.episodeNumber = to_numeric(replace_null(@))]
preprocess_title_episode(df) == [j \in 1..Len(df) |-> title_episode_row(df[j])]

title_principals_row(r) ==
    [r EXCEPT !.ordering = to_numeric(@),
              !.characters = keep_text(@)]
preprocess_title_principals(df) == [j \in 1..Len(df) |-> title_principals_row(df[j])]

\* the if/elif chain of main(): the first substring test that the name passes
preprocess(file, df) ==
    CASE file = FILE_TITLE_BASICS -> preprocess_title_basics(df)
      [] file = FILE_TITLE_RATINGS -> preprocess_title_ratings(df)
      [] file = FILE_NAME_BASICS -> preprocess_name_basics(df)
      [] file = FILE_TITLE_AKAS -> preprocess_title_akas(df)
      [] file = FILE_TITLE_CREW -> preprocess_title_crew(df)
      [] file = FILE_TITLE_EPISODE -> preprocess_title_episode(df)
      [] file = FILE_TITLE_PRINCIPALS -> preprocess_title_principals(df)
      [] OTHER -> df

-----------------------------------------------------------------------------
(* preprocess_data.py: the raw tables *)

\* the key column, which no preprocess_* function touches
KeyCell == Str(<<"tt1">>)

\* the rows a raw table of each kind can hold
RawRows(file) ==
    CASE file = FILE_TITLE_BASICS ->
            [tconst : {KeyCell}, startYear : RawNumericCells, endYear : RawNumericCells,
             runtimeMinutes : RawNumericCells, isAdult : RawFlagCells,
             genres : RawListCells]
      [] file = FILE_TITLE_RATINGS ->
            [tconst : {KeyCell}, averageRating : RawNumericCells,
             numVotes : RawNumericCells]
      [] file = FILE_NAME_BASICS ->
            [nconst : {KeyCell}, birthYear : RawNumericCells, deathYear : RawNumericCells,
             primaryProfession : RawListCells, knownForTitles : RawListCells]
      [] file = FILE_TITLE_AKAS ->
            [titleId : {KeyCell}, ordering : RawNumericCells,
             isOriginalTitle : RawFlagCells, types : RawListCells,
             attributes : RawListCells]
      [] file = FILE_TITLE_CREW ->
            [tconst : {KeyCell}, directors : RawListCells, writers : RawListCells]
      [] file = FILE_TITLE_EPISODE ->
            [tconst : {KeyCell}, seasonNumber : RawNumericCells,
             episodeNumber : RawNumericCells]
      [] OTHER ->
            [tconst : {KeyCell}, ordering : RawNumericCells, characters : RawTextCells]

\* a well-formed row of each kind
DefaultRow(file) ==
    CHOOSE r \in RawRows(file) :
        \A c \in DOMAIN r : r[c] \in {KeyCell, Str(<<"1994">>), Num(0), Str(<<"Drama">>),
                                      Str(<<"[\"Self\"]">>)}

\* a raw file that exists and that pd.read_csv cannot read, in one piece or in chunks
Corrupt == [exists |-> TRUE, readable |-> FALSE]
RawTable(rows) == [exists |-> TRUE, readable |-> TRUE, rows |-> rows]

\* a readable file of another layout: its one row has the key column only
KeyOnly == RawTable(<<[tconst |-> KeyCell]>>)

\* the tables the stage can find for one kind: a corrupt file, a file of another
\* layout, the empty table, any table of one row, and the same after a
\* well-formed row
RawTables(file) ==
    {Corrupt, KeyOnly, RawTable(<<>>)}
    \cup {RawTable(<<r>>) : r \in RawRows(file)}
    \cup {RawTable(<<DefaultRow(file), r>>) : r \in RawRows(file)}

\* the raw directories the stage can find: one kind holds any of its tables; the
\* other kinds all hold a table of one well-formed row, or are all absent
RawDirs ==
    UNION {
        {[f \in PpFiles |->
            IF f = focus THEN t
            ELSE IF others THEN RawTable(<<DefaultRow(f)>>) ELSE NoFile] :
         others \in BOOLEAN, t \in RawTables(focus)} :
        focus \in PpFiles}

-----------------------------------------------------------------------------
(* preprocess_data.py: main *)

PpInit ==
    /\ DlIdle
    /\ FtIdle
    /\ TrIdle
    /\ pp_raw \in RawDirs
    /\ pp_out = [f \in PpFiles |-> NoFile]
    /\ pp_pc = "idle"
    /\ pp_i = 1
    /\ pp_failed = {}
    /\ pp_read = {}
    /\ pp_start = [f \in PpFiles |-> NoFile]

\* main() is started, for the first time or again
pp_begin ==
    /\ pp_pc \in {"idle", "done"}
    /\ pp_pc' = "running"
    /\ pp_i' = 1
    /\ pp_failed' = {}
    /\ pp_read' = {}
    /\ pp_start' = pp_out
    /\ UNCHANGED <<dl_vars, ft_vars, tr_vars, pp_raw, pp_out>>

\* the columns preprocess_* indexes with df[...]
columns_read(file) ==
    CASE file = FILE_TITLE_BASICS ->
            {"startYear", "endYear", "runtimeMinutes", "isAdult", "genres"}
      [] file = FILE_TITLE_RATINGS -> {"averageRating", "numVotes"}
      [] file = FILE_NAME_BASICS ->
            {"birthYear", "deathYear", "primaryProfession", "knownForTitles"}
      [] file = FILE_TITLE_AKAS -> {"ordering", "isOriginalTitle", "types", "attributes"}
      [] file = FILE_TITLE_CREW -> {"directors", "writers"}
      [] file = FILE_TITLE_EPISODE -> {"seasonNumber", "episodeNumber"}
      [] file = FILE_TITLE_PRINCIPALS -> {"ordering", "characters"}
      [] OTHER -> {}

\* df['column'] raises KeyError: the table read has no such column
raises_KeyError(file, df) ==
    \E j \in 1..Len(df) : ~(columns_read(file) \subseteq DOMAIN df[j])

\* a try block that saves the table as read before it normalizes it
try_block_saves_first(file, raw) ==
    IF ~raw.readable
    THEN [failed |-> TRUE, out |-> NoFile]
    ELSE IF raises_KeyError(file, raw.rows)
    THEN [failed |-> TRUE, out |-> Table(raw.rows)]
    ELSE [failed |-> FALSE, out |-> Table(preprocess(file, raw.rows))]

\* the try block of one iteration and its except clause: whether an exception was
\* caught (and logged), and the file data/processed/<file> it leaves
try_block(file, raw) ==
    IF ~raw.readable
    THEN \* read_gz_tsv raises on both attempts
         [failed |-> TRUE, out |-> NoFile]
    ELSE IF raises_KeyError(file, raw.rows)
    THEN \* preprocess_* raises before to_csv is reached
         [failed |-> TRUE, out |-> NoFile]
    ELSE [failed |-> FALSE, out |-> Table(preprocess(file, raw.rows))]

\* one iteration of "for file in FILES", on FILES[pp_i]
pp_iteration ==
    /\ pp_pc = "running"
    /\ pp_i <= Len(FILES)
    /\ pp_i' = pp_i + 1
    /\ UNCHANGED <<dl_vars, ft_vars, tr_vars, pp_raw, pp_pc, pp_start>>
    /\ LET file == FILES[pp_i] IN
       IF ~pp_raw[file].exists
       THEN \* "doesn't exist. Skipping preprocessing."
            UNCHANGED <<pp_out, pp_failed, pp_read>>
       ELSE IF pp_out[file].exists
       THEN \* "already exists. Skipping preprocessing."
            UNCHANGED <<pp_out, pp_failed, pp_read>>
       ELSE LET result == try_block(file, pp_raw[file])
            IN  /\ pp_read' = pp_read \cup {file}
                /\ pp_out' = [pp_out EXCEPT ![file] = result.out]
                /\ pp_failed' = IF result.failed THEN pp_failed \cup {file}
                                ELSE pp_failed

\* the loop is over: main() returns
pp_end ==
    /\ pp_pc = "running"
    /\ pp_i > Len(FILES)
    /\ pp_pc' = "done"
    /\ UNCHANGED <<dl_vars, ft_vars, tr_vars, pp_raw, pp_out, pp_i, pp_failed, pp_read, pp_start>>

PpNext == pp_begin \/ pp_iteration \/ pp_end

SpecNormalize == PpInit /\ [][PpNext]_vars

-----------------------------------------------------------------------------
(* Claims about the normalizer, checked under SpecNormalize *)

\* the columns each kind's rule declares numeric
NumericColumns(file) ==
    CASE file = FILE_TITLE_BASICS -> {"startYear", "endYear", "runtimeMinutes"}
      [] file = FILE_TITLE_RATINGS -> {"averageRating", "numVotes"}
      [] file = FILE_NAME_BASICS -> {"birthYear", "deathYear"}
      [] file = FILE_TITLE_AKAS -> {"ordering"}
      [] file = FILE_TITLE_PRINCIPALS -> {"ordering"}
      [] file = FILE_TITLE_EPISODE -> {"seasonNumber", "episodeNumber"}
      [] OTHER -> {}

\* a cell that is a number or the missing marker, and no string
NumberOrMissing(c) == c = NA \/ (DOMAIN c = {"na", "v"} /\ ~c.na /\ c.v \in Int)

\* C10: in every row of every normalized table, each column its kind declares
\* numeric holds a number or the missing marker, never \N or another raw string;
\* and a cell that cannot be coerced makes no kind fail.
C10_NumericNormalized ==
    \A f \in PpFiles :
        /\ pp_out[f].exists =>
            /\ Len(pp_out[f].rows) = Len(pp_raw[f].rows)
            /\ \A j \in 1..Len(pp_out[f].rows) :
                \A c \in NumericColumns(f) : NumberOrMissing(pp_out[f].rows[j][c])
        /\ f \in pp_failed =>
            ~pp_raw[f].readable \/ raises_KeyError(f, pp_raw[f].rows)

\* title.basics was normalized from a row with the sentinel, a numeral and a
\* string that is no number in its numeric columns
C10_Witness ==
    /\ pp_out[FILE_TITLE_BASICS].exists
    /\ \E j \in 1..Len(pp_out[FILE_TITLE_BASICS].rows) :
        LET raw == pp_raw[FILE_TITLE_BASICS].rows[j]
            out == pp_out[FILE_TITLE_BASICS].rows[j]
        IN  /\ raw.startYear = NULL /\ out.startYear = NA
            /\ raw.endYear = Str(<<"1994">>) /\ out.endYear = Num(1994)
            /\ raw.runtimeMinutes = Str(<<"abc">>) /\ out.runtimeMinutes = NA


\* the columns each kind's rule declares list-valued
ListColumns(file) ==
    CASE file = FILE_TITLE_BASICS -> {"genres"}
      [] file = FILE_NAME_BASICS -> {"primaryProfession", "knownForTitles"}
      [] file = FILE_TITLE_AKAS -> {"types", "attributes"}
      [] file = FILE_TITLE_CREW -> {"directors", "writers"}
      [] OTHER -> {}

\* the items of a list, written one after the other with "," between them
RECURSIVE JoinComma(_)
JoinComma(items) ==
    IF Len(items) = 0 THEN <<>>
    ELSE IF Len(items) = 1 THEN items[1]
    ELSE items[1] \o <<",">> \o JoinComma(Tail(items))

\* a cell that is a list of strings, none of which holds a separator
ListOfStrings(c) ==
    /\ DOMAIN c = {"na", "list"}
    /\ \A k \in 1..Len(c.list) :
        \A h \in 1..Len(c.list[k]) : c.list[k][h] \in STRING /\ c.list[k][h] # ","

\* C11: in every row of every normalized table, each column its kind declares
\* list-valued holds a list of strings: the items of the raw value between its
\* commas, and the empty list when the raw value is \N or missing; never the raw
\* comma-joined string.
C11_ListNormalized ==
    \A f \in PpFiles :
        pp_out[f].exists =>
            \A j \in 1..Len(pp_out[f].rows) :
                \A c \in ListColumns(f) :
                    LET raw == pp_raw[f].rows[j][c]
                        out == pp_out[f].rows[j][c]
                    IN  /\ ListOfStrings(out)
                        /\ (raw = NULL \/ raw = NA) => out.list = <<>>
                        /\ (IsStr(raw) /\ raw # NULL) =>
                            /\ Len(out.list) >= 1
                            /\ JoinComma(out.list) = raw.s

\* name.basics was normalized from a row with two professions and the sentinel
\* for its known titles
C11_Witness ==
    /\ pp_out[FILE_NAME_BASICS].exists
    /\ \E j \in 1..Len(pp_out[FILE_NAME_BASICS].rows) :
        LET raw == pp_raw[FILE_NAME_BASICS].rows[j]
            out == pp_out[FILE_NAME_BASICS].rows[j]
        IN  /\ raw.primaryProfession = Str(<<"Drama", ",", "Comedy">>)
            /\ out.primaryProfession = List(<< <<"Drama">>, <<"Comedy">> >>)
            /\ raw.knownForTitles = NULL
            /\ out.knownForTitles = List(<<>>)


\* the place of a kind in FILES
IndexOf(file) == CHOOSE k \in 1..Len(FILES) : FILES[k] = file

\* the current run of main() is past the iteration on this kind
Processed(file) ==
    \/ pp_pc = "done"
    \/ pp_pc = "running" /\ IndexOf(file) < pp_i

\* reading this kind's input or normalizing it raises: the file cannot be read,
\* or a row of it lacks a column the kind's rule indexes
Fails(file) ==
    /\ pp_raw[file].exists
    /\ \/ ~pp_raw[file].readable
       \/ \E j \in 1..Len(pp_raw[file].rows) :
            \E c \in NumericColumns(file) \cup ListColumns(file) :
                c \notin DOMAIN pp_raw[file].rows[j]

\* C12: in a run of the normalizer over the kinds in their fixed order, a kind
\* whose output already exists is skipped without its input being read; a kind
\* whose read or normalization fails is logged and gets no output file; and
\* every other kind that has an input gets its output written, whatever failed
\* before it.
C12_FailureIsolation ==
    \A f \in PpFiles :
        Processed(f) =>
            /\ pp_start[f].exists =>
                f \notin pp_read /\ f \notin pp_failed /\ pp_out[f] = pp_start[f]
            /\ (~pp_start[f].exists /\ Fails(f)) =>
                f \in pp_failed /\ ~pp_out[f].exists
            /\ (~pp_start[f].exists /\ pp_raw[f].exists /\ ~Fails(f)) =>
                f \notin pp_failed /\ pp_out[f].exists

\* a run has ended in which one kind was read and failed in normalization, got
\* no output, and a kind after it was read and got its output
C12_Witness ==
    /\ pp_pc = "done"
    /\ \E f \in pp_failed, g \in PpFiles :
        /\ pp_raw[f].readable
        /\ ~pp_out[f].exists
        /\ IndexOf(f) < IndexOf(g)
        /\ ~pp_start[g].exists
        /\ g \in pp_read
        /\ pp_out[g].exists


-----------------------------------------------------------------------------
(* train_rating_classifier.py *)

\* the values a metric takes
Scores == 0..MaxScore

\* what train_and_log can yield for one family: model.fit raises, or the fitted
\* model is evaluated to some metrics
FitOutcomes == {Raises} \cup {Metrics(f1, acc) : f1 \in Scores, acc \in Scores}

\* the feature table the stage can find: absent, or present with labels that
\* train_test_split(..., stratify=y) can or cannot split
FeatureFiles ==
    {NoFile} \cup {[exists |-> TRUE, stratifiable |-> b] : b \in BOOLEAN}

\* the keys of results, in insertion order
Keys(results) == [k \in 1..Len(results) |-> results[k].name]

\* results[name]
Lookup(results, name) ==
    (CHOOSE k \in 1..Len(results) : results[k].name = name)

\* lambda k: results[k]['f1_score_weighted']
f1_of(results) ==
    [name \in {results[k].name : k \in 1..Len(results)} |->
        results[Lookup(results, name)].metrics.f1_score_weighted]

\* a maximum that a later item of equal key replaces
RECURSIVE max_last_upto(_, _, _)
max_last_upto(items, key, n) ==
    IF n = 1 THEN items[1]
    ELSE LET best == max_last_upto(items, key, n - 1)
         IN  IF key[items[n]] >= key[best] THEN items[n] ELSE best

max_last(items, key) == max_last_upto(items, key, Len(items))

\* Python's max over the first n items: the item kept so far is replaced only by
\* one of strictly greater key
RECURSIVE max_upto(_, _, _)
max_upto(items, key, n) ==
    IF n = 1 THEN items[1]
    ELSE LET best == max_upto(items, key, n - 1)
         IN  IF key[items[n]] > key[best] THEN items[n] ELSE best

\* max(iterable, key=...): the first item of greatest key
max(items, key) == max_upto(items, key, Len(items))

TrInit ==
    /\ DlIdle
    /\ FtIdle
    /\ PpIdle
    /\ tr_features \in FeatureFiles
    /\ tr_fit \in [Families -> FitOutcomes]
    /\ tr_pc = "idle"
    /\ tr_raised = ""
    /\ tr_i = 1
    /\ tr_results = <<>>
    /\ tr_trained = {}
    /\ tr_reports = {}
    /\ tr_best = NoFile
    /\ tr_meta = NoFile
    /\ tr_start = NoFile

\* main() is started, for the first time or again, and runs up to the loop:
\* load_and_prepare_data, train_test_split, create_models
tr_begin ==
    /\ tr_pc \in {"idle", "done", "failed"}
    /\ tr_start' = tr_best
    /\ tr_i' = 1
    /\ tr_results' = <<>>
    /\ tr_trained' = {}
    /\ IF ~tr_features.exists
       THEN \* raise FileNotFoundError("Data not found: ...")
            tr_pc' = "failed" /\ tr_raised' = "FileNotFoundError"
       ELSE IF ~tr_features.stratifiable
       THEN \* train_test_split raises
            tr_pc' = "failed" /\ tr_raised' = "ValueError"
       ELSE tr_pc' = "running" /\ tr_raised' = ""
    /\ UNCHANGED <<dl_vars, ft_vars, pp_vars, tr_features, tr_fit, tr_reports,
                   tr_best, tr_meta>>

\* one iteration of "for name, model in models.items()": train_and_log
tr_train_and_log ==
    /\ tr_pc = "running"
    /\ tr_i <= Len(MODELS)
    /\ LET name == MODELS[tr_i] IN
        /\ tr_trained' = tr_trained \cup {name}
        /\ IF tr_fit[name].raises
           THEN \* the exception leaves train_and_log and main
                /\ tr_pc' = "failed"
                /\ tr_raised' = "fit"
                /\ UNCHANGED <<tr_i, tr_results, tr_reports>>
           ELSE /\ tr_results' = Append(tr_results,
                                        [name |-> name, metrics |-> tr_fit[name]])
                /\ tr_reports' = tr_reports \cup {name}
                /\ tr_i' = tr_i + 1
                /\ UNCHANGED <<tr_pc, tr_raised>>
    /\ UNCHANGED <<dl_vars, ft_vars, pp_vars, tr_features, tr_fit, tr_best, tr_meta,
                   tr_start>>

\* after the loop: the best family is selected and saved with its metadata
tr_save_best ==
    /\ tr_pc = "running"
    /\ tr_i > Len(MODELS)
    /\ LET best_name == max(Keys(tr_results), f1_of(tr_results))
           best_metrics == tr_results[Lookup(tr_results, best_name)].metrics
       IN  /\ tr_best' = [exists |-> TRUE, model_name |-> best_name]
           /\ tr_meta' = [exists |-> TRUE, model_name |-> best_name,
                          metrics |-> best_metrics]
    /\ tr_pc' = "done"
    /\ UNCHANGED <<dl_vars, ft_vars, pp_vars, tr_features, tr_fit, tr_raised, tr_i,
                   tr_results, tr_trained, tr_reports, tr_start>>

TrNext == tr_begin \/ tr_train_and_log \/ tr_save_best

SpecTrain == TrInit /\ [][TrNext]_vars

-----------------------------------------------------------------------------
(* Claims about training, checked under SpecTrain *)

\* the place of a family in the iteration order
FamilyIndex(name) == CHOOSE k \in 1..Len(MODELS) : MODELS[k] = name

\* C13: once both families have been trained and evaluated, the model saved as
\* best and the one the metadata names are the same family, the metadata holds
\* that family's own metrics, its weighted F1 is at least that of every other
\* family, and among families of equal weighted F1 it is the first in iteration
\* order (logistic_regression before linear_svm).
C13_BestModelSelection ==
    tr_pc = "done" =>
        /\ tr_best.exists /\ tr_meta.exists
        /\ tr_best.model_name \in Families
        /\ tr_meta.model_name = tr_best.model_name
        /\ tr_meta.metrics = tr_fit[tr_best.model_name]
        /\ \A m \in Families :
            /\ tr_fit[tr_best.model_name].f1_score_weighted
                    >= tr_fit[m].f1_score_weighted
            /\ tr_fit[tr_best.model_name].f1_score_weighted
                    = tr_fit[m].f1_score_weighted
                => FamilyIndex(tr_best.model_name) <= FamilyIndex(m)

\* a run has ended in which the two families had the same weighted F1 and
\* different accuracies, and logistic_regression was saved with its own metrics
C13_Witness ==
    /\ tr_pc = "done"
    /\ tr_fit["logistic_regression"].f1_score_weighted
            = tr_fit["linear_svm"].f1_score_weighted
    /\ tr_fit["logistic_regression"].accuracy # tr_fit["linear_svm"].accuracy
    /\ tr_best.model_name = "logistic_regression"
    /\ tr_meta.metrics = tr_fit["logistic_regression"]


-----------------------------------------------------------------------------
(* Claims about the four stages together *)

\* a run of the download stage leaves alone every file whose output it found
DlResumes ==
    \A f \in DlFiles :
        (dl_pc # "idle" /\ dl_start[f].exists) =>
            f \notin dl_fetched /\ f \notin dl_sampled /\ rawDir[f] = dl_start[f]

\* a run of the normalizer leaves alone every kind whose output it found
PpResumes ==
    \A f \in PpFiles :
        pp_start[f].exists => f \notin pp_read /\ pp_out[f] = pp_start[f]

\* a step taken when the feature table exists derives nothing and keeps the table
FtResumes ==
    ft_features.exists =>
        /\ ft_features' = ft_features
        /\ ft_outcome' = "written" => ft_outcome = "written"

\* a run of training that found a saved best model fits no family and keeps it
TrResumes ==
    tr_start.exists => tr_trained = {} /\ tr_best = tr_start

\* C14: each of the four stages looks for its own output before it recomputes: a
\* run of a stage that finds its output in place fetches nothing, samples
\* nothing, normalizes nothing, derives nothing and trains nothing, and leaves
\* that output as it was.
C14_Resumable ==
    /\ []DlResumes
    /\ []PpResumes
    /\ [][FtResumes]_vars
    /\ []TrResumes

\* C15: a run of a stage ends having written its output, or having skipped
\* because the output was there, or with an exception let through to the caller;
\* a run of feature derivation without the normalized basics or ratings, and a run
\* of training without the feature table, end with an exception and write nothing.
C15_StageExit ==
    /\ ft_outcome \in {"idle", "written", "skipped", "error"}
    /\ ft_outcome = "written" => ft_features.exists
    /\ (ft_outcome \notin {"idle", "skipped"}
            /\ (~ft_basics.exists \/ ~ft_ratings.exists)) =>
        ft_outcome = "error" /\ ~ft_features.exists
    /\ tr_pc = "failed" <=> tr_raised # ""
    /\ tr_pc = "done" => tr_best.exists
    /\ (tr_pc # "idle" /\ ~tr_features.exists) =>
        tr_pc = "failed" /\ tr_raised = "FileNotFoundError" /\ tr_best = tr_start

====
